---- MODULE Spec2Model ----
(***************************************************************************)
(* Model of omi_async_http_client's two backends:                          *)
(*   AioHttpClientBackend   (src/omi_async_http_client/aiohttp_backend.py) *)
(*   MockTestClientBackend  (src/test/mock/mock_test_client_backend.py)    *)
(* A request is one verb call: the verb method builds the transport call,  *)
(* suspends at the transport (the only await), and the rest of the method  *)
(* turns the transport's answer into a ClientBackendResponse or an         *)
(* exception.  The response filter is also callable on its own.            *)
(***************************************************************************)
EXTENDS Integers, FiniteSets, Sequences, TLC

VARIABLES
    pc,       \* position of the request: "idle", "awaiting", "replied", "done"
    args,     \* what the caller passed to the verb method
    call,     \* the call the verb method made on the transport
    reply,    \* what the transport did: a response or a raised error
    result,   \* what the verb method returned or raised
    steps,    \* which steps after the await ran, in order
    filt      \* the last direct call of a response filter

vars == <<pc, args, call, reply, result, steps, filt>>

-----------------------------------------------------------------------------
(* Bounds of the model *)

\* integer "code" fields of a body range over -1..MaxCode
MaxCode == 2
\* the timeout argument ranges over 1..MaxTimeout
MaxTimeout == 2

-----------------------------------------------------------------------------
(* status_codes: the named constants the two files use *)

OK == 200
CREATED == 201
ACCEPTED == 202
BAD_REQUEST == 400
UNAUTHORIZED == 401
FORBIDDEN == 403
NOT_FOUND == 404
CONFLICT == 409
UNPROCESSABLE_ENTITY == 422
REQUEST_TIMEOUT == 408
SERVICE_UNAVAILABLE == 503

is_server_error(status) == status >= 500 /\ status <= 599

is_client_error(status) == status >= 400 /\ status <= 499

get_reason_phrase(status) ==
    CASE status = BAD_REQUEST -> "Bad Request"
      [] status = UNAUTHORIZED -> "Unauthorized"
      [] status = FORBIDDEN -> "Forbidden"
      [] status = NOT_FOUND -> "Not Found"
      [] status = CONFLICT -> "Conflict"
      [] status = UNPROCESSABLE_ENTITY -> "Unprocessable Entity"
      [] OTHER -> "Unknown"

-----------------------------------------------------------------------------
(* Python values.  Every value is a record tagged by its type in field t.  *)

None == [t |-> "None"]
IntV(n) == [t |-> "int", v |-> n]
StrV(s) == [t |-> "str", s |-> s]
\* a dict is its set of <<key, value>> items, a list stands for any non-dict
Dict(items) == [t |-> "dict", items |-> items]
ListV == [t |-> "list"]

\* dict.get(key, default)
DictGet(d, key, default) ==
    IF \E p \in d.items : p[1] = key
    THEN (CHOOSE p \in d.items : p[1] = key)[2]
    ELSE default

\* aiohttp.BasicAuth(login, password)
BasicAuth(login, password) ==
    [t |-> "BasicAuth", login |-> login, password |-> password]

\* aiohttp.ClientTimeout(total=...)
ClientTimeout(total) == [t |-> "ClientTimeout", total |-> total]

\* the request bodies a caller passes as data
DataX == Dict({<<"x", IntV(1)>>})
DataValues == {None, Dict({}), DataX}

\* json.dumps on the data values: None serialises to the text null
json_dumps(data) ==
    CASE data = None -> StrV("null")
      [] data = Dict({}) -> StrV("{}")
      [] data = DataX -> StrV("{\"x\": 1}")

\* the keyword argument was not passed at all
Omitted == [t |-> "omitted"]

\* the auth argument: nothing, a pre-built credential, or a raw mapping
AuthValues ==
    { None,
      BasicAuth(StrV("alice"), StrV("secret")),
      Dict({}),
      Dict({<<"username", StrV("bob")>>}),
      Dict({<<"password", StrV("pw")>>}),
      Dict({<<"username", StrV("bob")>>, <<"password", StrV("pw")>>}) }

Timeouts == 1..MaxTimeout

Url == "http://api.test/items"

-----------------------------------------------------------------------------
(* What the transport can deliver *)

Statuses == {200, 201, 202, 204, 301, 400, 401, 403, 404, 409, 418, 422, 500,
             503}

\* the value of a decoded body's "code" entry
CodeValues == {IntV(n) : n \in -1..MaxCode} \cup {StrV("E42"), None}

\* decoded bodies: dicts with or without "code", with or without another
\* entry, and a JSON array
Bodies ==
    { Dict(c \cup o) :
        c \in {{}} \cup {{<<"code", v>>} : v \in CodeValues},
        o \in {{}, {<<"field", StrV("required")>>}} }
    \cup {ListV}

-----------------------------------------------------------------------------
(* Outcomes of a call *)

ClientBackendResponse(status_code, response) ==
    [kind |-> "ClientBackendResponse", status_code |-> status_code,
     response |-> response]

\* HTTPException(status_code, trace_code=None, detail=None)
HTTPException(status_code, trace_code, detail) ==
    [kind |-> "HTTPException", status_code |-> status_code,
     trace_code |-> trace_code, detail |-> detail]

\* any other raised exception: its class and its message
Raised(cls, msg) == [kind |-> cls, msg |-> msg]

\* str(err)
str(err) == StrV(err.msg)

\* the filter returned without raising
Pass == [kind |-> "pass"]

\* the classes that derive from aiohttp.ClientError
IsClientError(cls) ==
    cls \in {"ClientError", "ServerTimeoutError", "ClientConnectorError",
             "ContentTypeError"}

IsServerTimeoutError(cls) == cls = "ServerTimeoutError"

\* trace_code > 0: the comparison is defined for int only
GreaterThanZero(value) ==
    IF value.t = "int" THEN (IF value.v > 0 THEN "True" ELSE "False")
    ELSE "TypeError"

-----------------------------------------------------------------------------
(* The response filter of the production backend *)

\* variant: 422 handled like the five classified statuses
filter_422_reason_phrase(status, response_dict) ==
    IF status \in {BAD_REQUEST, UNAUTHORIZED, FORBIDDEN, NOT_FOUND, CONFLICT,
                   UNPROCESSABLE_ENTITY}
    THEN IF response_dict.t # "dict"
         THEN Raised("AttributeError", "object has no attribute 'get'")
         ELSE LET trace_code == DictGet(response_dict, "code", IntV(0))
              IN CASE GreaterThanZero(trace_code) = "TypeError" ->
                        Raised("TypeError", "'>' not supported")
                   [] GreaterThanZero(trace_code) = "True" ->
                        HTTPException(status, trace_code,
                                      StrV(get_reason_phrase(status)))
                   [] OTHER ->
                        HTTPException(status, None,
                                      StrV(get_reason_phrase(status)))
    ELSE Pass

\* variant: the final else raises instead of passing
filter_else_raises(status, response_dict) ==
    IF status \in {BAD_REQUEST, UNAUTHORIZED, FORBIDDEN, NOT_FOUND, CONFLICT}
    THEN IF response_dict.t # "dict"
         THEN Raised("AttributeError", "object has no attribute 'get'")
         ELSE LET trace_code == DictGet(response_dict, "code", IntV(0))
              IN CASE GreaterThanZero(trace_code) = "TypeError" ->
                        Raised("TypeError", "'>' not supported")
                   [] GreaterThanZero(trace_code) = "True" ->
                        HTTPException(status, trace_code,
                                      StrV(get_reason_phrase(status)))
                   [] OTHER ->
                        HTTPException(status, None,
                                      StrV(get_reason_phrase(status)))
    ELSE IF status = UNPROCESSABLE_ENTITY
    THEN HTTPException(status, None, response_dict)
    ELSE IF status \in {OK, CREATED, ACCEPTED}
    THEN Pass
    ELSE HTTPException(status, None, None)

filter_received_response(status, response_dict) ==
    IF status \in {BAD_REQUEST, UNAUTHORIZED, FORBIDDEN, NOT_FOUND, CONFLICT}
    THEN IF response_dict.t # "dict"
         THEN Raised("AttributeError", "object has no attribute 'get'")
         ELSE LET trace_code == DictGet(response_dict, "code", IntV(0))
              IN CASE GreaterThanZero(trace_code) = "TypeError" ->
                        Raised("TypeError", "'>' not supported")
                   [] GreaterThanZero(trace_code) = "True" ->
                        HTTPException(status, trace_code,
                                      StrV(get_reason_phrase(status)))
                   [] OTHER ->
                        HTTPException(status, None,
                                      StrV(get_reason_phrase(status)))
    ELSE IF status = UNPROCESSABLE_ENTITY
    THEN HTTPException(status, None, response_dict)
    ELSE IF status \in {OK, CREATED, ACCEPTED}
    THEN Pass
    ELSE Pass

-----------------------------------------------------------------------------
(* The response filter of the mock backend *)

\* variant: CONFLICT left out of the classified statuses
mock_filter_without_conflict(status, response_dict) ==
    IF status \in {BAD_REQUEST, UNAUTHORIZED, FORBIDDEN, NOT_FOUND}
    THEN IF response_dict.t # "dict"
         THEN Raised("AttributeError", "object has no attribute 'get'")
         ELSE LET trace_code == DictGet(response_dict, "code", IntV(0))
              IN CASE GreaterThanZero(trace_code) = "TypeError" ->
                        Raised("TypeError", "'>' not supported")
                   [] GreaterThanZero(trace_code) = "True" ->
                        HTTPException(status, trace_code,
                                      StrV(get_reason_phrase(status)))
                   [] OTHER ->
                        HTTPException(status, None,
                                      StrV(get_reason_phrase(status)))
    ELSE IF status = UNPROCESSABLE_ENTITY
    THEN HTTPException(status, None, response_dict)
    ELSE IF status \in {OK, CREATED, ACCEPTED}
    THEN Pass
    ELSE Pass

mock_filter_received_response(status, response_dict) ==
    IF status \in {BAD_REQUEST, UNAUTHORIZED, FORBIDDEN, NOT_FOUND, CONFLICT}
    THEN IF response_dict.t # "dict"
         THEN Raised("AttributeError", "object has no attribute 'get'")
         ELSE LET trace_code == DictGet(response_dict, "code", IntV(0))
              IN CASE GreaterThanZero(trace_code) = "TypeError" ->
                        Raised("TypeError", "'>' not supported")
                   [] GreaterThanZero(trace_code) = "True" ->
                        HTTPException(status, trace_code,
                                      StrV(get_reason_phrase(status)))
                   [] OTHER ->
                        HTTPException(status, None,
                                      StrV(get_reason_phrase(status)))
    ELSE IF status = UNPROCESSABLE_ENTITY
    THEN HTTPException(status, None, response_dict)
    ELSE IF status \in {OK, CREATED, ACCEPTED}
    THEN Pass
    ELSE Pass

-----------------------------------------------------------------------------
(* The production backend after the transport has answered *)

\* variant: the ClientError clause placed before the ServerTimeoutError clause
except_clauses_client_error_first(err) ==
    IF IsClientError(err.kind)
    THEN HTTPException(SERVICE_UNAVAILABLE, None, str(err))
    ELSE IF IsServerTimeoutError(err.kind)
    THEN HTTPException(REQUEST_TIMEOUT, None, str(err))
    ELSE err

\* the except clauses of request_http, tried in order; anything else
\* propagates as raised
except_clauses(err) ==
    IF IsServerTimeoutError(err.kind)
    THEN HTTPException(REQUEST_TIMEOUT, None, str(err))
    ELSE IF IsClientError(err.kind)
    THEN HTTPException(SERVICE_UNAVAILABLE, None, str(err))
    ELSE err

\* variant: the body is decoded before the status is inspected
request_http_decode_first(answer) ==
    IF answer.kind = "error"
    THEN [out |-> except_clauses(answer.exc), steps |-> <<>>]
    ELSE LET status == answer.status
         IN IF answer.decode # "ok"
            THEN [out |-> except_clauses(Raised(answer.decode, "cannot decode")),
                  steps |-> <<"decode">>]
            ELSE IF is_server_error(status)
            THEN [out |-> except_clauses(HTTPException(status, None, None)),
                  steps |-> <<"decode", "status">>]
            ELSE LET response_dict == answer.body
                     raised == filter_received_response(status, response_dict)
                 IN IF raised # Pass
                    THEN [out |-> except_clauses(raised),
                          steps |-> <<"decode", "status", "filter">>]
                    ELSE [out |-> ClientBackendResponse(status, response_dict),
                          steps |-> <<"decode", "status", "filter">>]

\* variant: no short-circuit on a server-error status
request_http_no_server_error_check(answer) ==
    IF answer.kind = "error"
    THEN [out |-> except_clauses(answer.exc), steps |-> <<>>]
    ELSE LET status == answer.status
         IN IF answer.decode # "ok"
            THEN [out |-> except_clauses(Raised(answer.decode, "cannot decode")),
                  steps |-> <<"status", "decode">>]
            ELSE LET response_dict == answer.body
                     raised == filter_received_response(status, response_dict)
                 IN IF raised # Pass
                    THEN [out |-> except_clauses(raised),
                          steps |-> <<"status", "decode", "filter">>]
                    ELSE [out |-> ClientBackendResponse(status, response_dict),
                          steps |-> <<"status", "decode", "filter">>]

\* request_http from the point where aiohttp.request has answered: the body
\* of the async with, inside the try.  The elif is_client_error(status)
\* branch is a bare pass, so a 4xx status goes on to the decode like any
\* other status that is not 5xx.
request_http(answer) ==
    IF answer.kind = "error"
    THEN [out |-> except_clauses(answer.exc), steps |-> <<>>]
    ELSE LET status == answer.status
         IN IF is_server_error(status)
            THEN [out |-> except_clauses(HTTPException(status, None, None)),
                  steps |-> <<"status">>]
            ELSE IF answer.decode # "ok"
            THEN [out |-> except_clauses(Raised(answer.decode, "cannot decode")),
                  steps |-> <<"status", "decode">>]
            ELSE LET response_dict == answer.body
                     raised == filter_received_response(status, response_dict)
                 IN IF raised # Pass
                    THEN [out |-> except_clauses(raised),
                          steps |-> <<"status", "decode", "filter">>]
                    ELSE [out |-> ClientBackendResponse(status, response_dict),
                          steps |-> <<"status", "decode", "filter">>]

\* the transport call request_http makes: data is always serialised
aiohttp_request(method, url, data, headers, auth, timeout) ==
    [method |-> method, url |-> url, data |-> json_dumps(data),
     headers |-> headers, auth |-> auth, timeout |-> timeout]

\* the credential the production verb methods hand to request_http
auth_method(auth) ==
    IF auth.t = "dict"
    THEN BasicAuth(DictGet(auth, "username", StrV("")),
                   DictGet(auth, "password", StrV("")))
    ELSE auth

-----------------------------------------------------------------------------
(* The mock backend after the test client has answered *)

mock_prepare_response(response) ==
    LET status == response.status
    IN IF is_server_error(status)
       THEN [out |-> HTTPException(status, None, None), steps |-> <<"status">>]
       ELSE IF response.decode # "ok"
       THEN [out |-> Raised(response.decode, "cannot decode"),
             steps |-> <<"status", "decode">>]
       ELSE LET response_dict == response.body
                raised == mock_filter_received_response(status, response_dict)
            IN IF raised # Pass
               THEN [out |-> raised, steps |-> <<"status", "decode", "filter">>]
               ELSE [out |-> ClientBackendResponse(status, response_dict),
                     steps |-> <<"status", "decode", "filter">>]

\* response = await future; return self.mock_prepare_response(response)
mock_await(answer) ==
    IF answer.kind = "error"
    THEN [out |-> answer.exc, steps |-> <<>>]
    ELSE mock_prepare_response(answer)

\* the call a mock verb method makes on the test client
test_client_call(method, url, data, headers, timeout) ==
    [method |-> method, url |-> url, data |-> data, headers |-> headers,
     auth |-> None, timeout |-> IntV(timeout)]

-----------------------------------------------------------------------------
(* What the transports can answer *)

\* aiohttp.request: a response whose body decodes, a response whose json()
\* raises (a ClientError subclass on a wrong content type, a ValueError
\* subclass on malformed text), or a raised transport error
AioAnswers ==
    { [kind |-> "response", status |-> s, body |-> b, decode |-> "ok"] :
        s \in Statuses, b \in Bodies }
    \cup
    { [kind |-> "response", status |-> s, body |-> None, decode |-> d] :
        s \in Statuses, d \in {"ContentTypeError", "JSONDecodeError"} }
    \cup
    { [kind |-> "error", exc |-> Raised("ServerTimeoutError", "timed out")],
      [kind |-> "error",
       exc |-> Raised("ClientConnectorError", "cannot connect to host")] }

\* the test client: a response whose body decodes, a response whose json()
\* raises, or a raised error of the test client's own
MockAnswers ==
    { [kind |-> "response", status |-> s, body |-> b, decode |-> "ok"] :
        s \in Statuses, b \in Bodies }
    \cup
    { [kind |-> "response", status |-> s, body |-> None,
       decode |-> "JSONDecodeError"] : s \in Statuses }
    \cup
    { [kind |-> "error", exc |-> Raised("Timeout", "timed out")],
      [kind |-> "error", exc |-> Raised("ConnectionError", "refused")] }

-----------------------------------------------------------------------------
(* State *)

Nothing == [kind |-> "nothing"]

Init ==
    /\ pc = "idle"
    /\ args = Nothing
    /\ call = Nothing
    /\ reply = Nothing
    /\ result = Nothing
    /\ steps = <<>>
    /\ filt = [called |-> FALSE]

\* the arguments a caller passed to a verb method
Args(backend, verb, data, auth, timeout) ==
    [backend |-> backend, verb |-> verb, url |-> Url, data |-> data,
     header |-> None, auth |-> auth, timeout |-> timeout]

-----------------------------------------------------------------------------
(* AioHttpClientBackend: the verb methods up to the transport call *)

head ==
    \E auth \in AuthValues, timeout \in Timeouts :
        /\ pc = "idle"
        /\ pc' = "awaiting"
        /\ args' = Args("aiohttp", "head", Omitted, auth, timeout)
        /\ call' = aiohttp_request("head", Url, None, None, auth_method(auth),
                 ClientTimeout(timeout))
        /\ UNCHANGED <<reply, result, steps, filt>>

get ==
    \E data \in DataValues, auth \in AuthValues, timeout \in Timeouts :
        /\ pc = "idle"
        /\ pc' = "awaiting"
        /\ args' = Args("aiohttp", "get", data, auth, timeout)
        /\ call' = aiohttp_request("get", Url, None, None, auth_method(auth),
                 ClientTimeout(timeout))
        /\ UNCHANGED <<reply, result, steps, filt>>

put ==
    \E data \in DataValues, auth \in AuthValues, timeout \in Timeouts :
        /\ pc = "idle"
        /\ pc' = "awaiting"
        /\ args' = Args("aiohttp", "put", data, auth, timeout)
        /\ call' = aiohttp_request("put", Url, data, None, auth_method(auth),
                 ClientTimeout(timeout))
        /\ UNCHANGED <<reply, result, steps, filt>>

post ==
    \E data \in DataValues, auth \in AuthValues, timeout \in Timeouts :
        /\ pc = "idle"
        /\ pc' = "awaiting"
        /\ args' = Args("aiohttp", "post", data, auth, timeout)
        /\ call' = aiohttp_request("post", Url, data, None, auth_method(auth),
                 ClientTimeout(timeout))
        /\ UNCHANGED <<reply, result, steps, filt>>

delete ==
    \E data \in DataValues, auth \in AuthValues, timeout \in Timeouts :
        /\ pc = "idle"
        /\ pc' = "awaiting"
        /\ args' = Args("aiohttp", "delete", data, auth, timeout)
        /\ call' = aiohttp_request("delete", Url, data, None, auth_method(auth),
                 ClientTimeout(timeout))
        /\ UNCHANGED <<reply, result, steps, filt>>

-----------------------------------------------------------------------------
(* MockTestClientBackend: the verb methods up to the test client call *)

mock_head ==
    \E auth \in AuthValues, timeout \in Timeouts :
        /\ pc = "idle"
        /\ pc' = "awaiting"
        /\ args' = Args("mock", "head", Omitted, auth, timeout)
        /\ call' = test_client_call("head", Url, Omitted, None, timeout)
        /\ UNCHANGED <<reply, result, steps, filt>>

mock_get ==
    \E data \in DataValues, auth \in AuthValues, timeout \in Timeouts :
        /\ pc = "idle"
        /\ pc' = "awaiting"
        /\ args' = Args("mock", "get", data, auth, timeout)
        /\ call' = test_client_call("get", Url, json_dumps(data), None, timeout)
        /\ UNCHANGED <<reply, result, steps, filt>>

mock_put ==
    \E data \in DataValues, auth \in AuthValues, timeout \in Timeouts :
        /\ pc = "idle"
        /\ pc' = "awaiting"
        /\ args' = Args("mock", "put", data, auth, timeout)
        /\ call' = test_client_call("put", Url, json_dumps(data), None, timeout)
        /\ UNCHANGED <<reply, result, steps, filt>>

mock_post ==
    \E data \in DataValues, auth \in AuthValues, timeout \in Timeouts :
        /\ pc = "idle"
        /\ pc' = "awaiting"
        /\ args' = Args("mock", "post", data, auth, timeout)
        /\ call' = test_client_call("post", Url, json_dumps(data), None, timeout)
        /\ UNCHANGED <<reply, result, steps, filt>>

mock_delete ==
    \E data \in DataValues, auth \in AuthValues, timeout \in Timeouts :
        /\ pc = "idle"
        /\ pc' = "awaiting"
        /\ args' = Args("mock", "delete", data, auth, timeout)
        /\ call' = test_client_call("delete", Url, json_dumps(data), None,
                 timeout)
        /\ UNCHANGED <<reply, result, steps, filt>>

-----------------------------------------------------------------------------
(* The transport answers, and the verb method runs to its end *)

TransportAnswers ==
    /\ pc = "awaiting"
    /\ reply' \in (IF args.backend = "aiohttp" THEN AioAnswers ELSE MockAnswers)
    /\ pc' = "replied"
    /\ UNCHANGED <<args, call, result, steps, filt>>

AioCompletes ==
    /\ pc = "replied"
    /\ args.backend = "aiohttp"
    /\ result' = request_http(reply).out
    /\ steps' = request_http(reply).steps
    /\ pc' = "done"
    /\ UNCHANGED <<args, call, reply, filt>>

MockCompletes ==
    /\ pc = "replied"
    /\ args.backend = "mock"
    /\ result' = mock_await(reply).out
    /\ steps' = mock_await(reply).steps
    /\ pc' = "done"
    /\ UNCHANGED <<args, call, reply, filt>>

\* the caller has the outcome; the backend keeps nothing of the request
CallerResumes ==
    /\ pc = "done"
    /\ pc' = "idle"
    /\ args' = Nothing
    /\ call' = Nothing
    /\ reply' = Nothing
    /\ result' = Nothing
    /\ steps' = <<>>
    /\ UNCHANGED filt

Next ==
    \/ head
    \/ get
    \/ put
    \/ post
    \/ delete
    \/ mock_head
    \/ mock_get
    \/ mock_put
    \/ mock_post
    \/ mock_delete
    \/ TransportAnswers
    \/ AioCompletes
    \/ MockCompletes
    \/ CallerResumes

Spec == Init /\ [][Next]_vars

-----------------------------------------------------------------------------
(* The response filters called directly, on any status and any body *)

CallFilter ==
    \E status \in Statuses, response_dict \in Bodies :
        /\ filt' = [called |-> TRUE, backend |-> "aiohttp", status |-> status,
                    body |-> response_dict,
                    result |-> filter_received_response(status, response_dict)]
        /\ UNCHANGED <<pc, args, call, reply, result, steps>>

CallMockFilter ==
    \E status \in Statuses, response_dict \in Bodies :
        /\ filt' = [called |-> TRUE, backend |-> "mock", status |-> status,
                    body |-> response_dict,
                    result |->
                        mock_filter_received_response(status, response_dict)]
        /\ UNCHANGED <<pc, args, call, reply, result, steps>>

NextFilter ==
    \/ CallFilter
    \/ CallMockFilter

SpecFilter == Init /\ [][NextFilter]_vars

-----------------------------------------------------------------------------
(* Properties *)

ClassifiedStatuses == {BAD_REQUEST, UNAUTHORIZED, FORBIDDEN, NOT_FOUND, CONFLICT}

ListedStatuses ==
    ClassifiedStatuses \cup {UNPROCESSABLE_ENTITY, OK, CREATED, ACCEPTED}

Finished == pc = "done"

\* C1: every request made through a verb method of either backend ends in a
\* returned ClientBackendResponse or a raised HTTPException, whatever the
\* transport did, and in nothing else.
C1_ResponseOrHTTPException ==
    Finished => result.kind \in {"ClientBackendResponse", "HTTPException"}

\* C2: for a status in {400, 401, 403, 404, 409} and every body the filter
\* raises an HTTPException with that status; it carries trace_code N when the
\* body's "code" is N > 0, and no trace_code when "code" is 0 or missing.
C2_ClassifiedStatusRaisesHTTPException ==
    (filt.called /\ filt.status \in ClassifiedStatuses) =>
        /\ filt.result.kind = "HTTPException"
        /\ filt.result.status_code = filt.status
        /\ filt.body.t = "dict" =>
              LET code == DictGet(filt.body, "code", IntV(0))
              IN /\ (code.t = "int" /\ code.v > 0) =>
                        filt.result.trace_code = code
                 /\ code = IntV(0) => filt.result.trace_code = None

\* What does hold of the classified statuses: on a dict body whose "code" is
\* missing or an integer the filter raises the HTTPException C2 describes.
C2_HoldsForIntegerCodes ==
    (/\ filt.called
     /\ filt.status \in ClassifiedStatuses
     /\ filt.body.t = "dict"
     /\ DictGet(filt.body, "code", IntV(0)).t = "int") =>
        LET code == DictGet(filt.body, "code", IntV(0))
        IN /\ filt.result.kind = "HTTPException"
           /\ filt.result.status_code = filt.status
           /\ filt.result.detail = StrV(get_reason_phrase(filt.status))
           /\ filt.result.trace_code = (IF code.v > 0 THEN code ELSE None)

\* C3: for status 422 and every body B the filter raises an HTTPException
\* with status_code 422, detail exactly B and no trace_code.
C3_UnprocessableEntityKeepsBody ==
    (filt.called /\ filt.status = 422) =>
        /\ filt.result.kind = "HTTPException"
        /\ filt.result.status_code = 422
        /\ filt.result.detail = filt.body
        /\ filt.result.trace_code = None

C3_Witness ==
    /\ filt.called
    /\ filt.backend = "aiohttp"
    /\ filt.status = 422
    /\ filt.body = Dict({<<"code", IntV(1)>>, <<"field", StrV("required")>>})
    /\ filt.result.kind = "HTTPException"
    /\ filt.result.detail = filt.body

\* C4: for every status outside {400, 401, 403, 404, 409, 422, 200, 201, 202}
\* and every body the filter raises nothing.
C4_UnlistedStatusPasses ==
    (filt.called /\ filt.status \notin ListedStatuses) => filt.result = Pass

C4_Witness ==
    /\ filt.called
    /\ filt.backend = "aiohttp"
    /\ filt.status = 500
    /\ filt.result = Pass

C6_ServerErrorShortCircuits ==
    (/\ Finished
     /\ args.backend = "aiohttp"
     /\ reply.kind = "response"
     /\ reply.status \in 500..599) =>
        /\ result.kind = "HTTPException"
        /\ result.status_code = reply.status
        /\ result.detail = None
        /\ \A i \in 1..Len(steps) : steps[i] \notin {"decode", "filter"}

C6_Witness ==
    /\ Finished
    /\ args.backend = "aiohttp"
    /\ reply.kind = "response"
    /\ reply.status = 500
    /\ reply.decode = "JSONDecodeError"
    /\ result.kind = "HTTPException"
    /\ result.status_code = 500

\* C7: on every decoded response the outcome a backend produced equals the
\* outcome the other backend's code produces on that same response.
C7_BackendsClassifyAlike ==
    (Finished /\ reply.kind = "response" /\ reply.decode = "ok") =>
        result = (IF args.backend = "aiohttp"
                  THEN mock_prepare_response(reply).out
                  ELSE request_http(reply).out)

C7_Witness ==
    /\ Finished
    /\ args.backend = "mock"
    /\ reply.kind = "response"
    /\ reply.status = 409
    /\ reply.decode = "ok"
    /\ result.kind = "HTTPException"
    /\ result.trace_code = IntV(2)

\* C8: the transport call of a head or get carries no request body, whatever
\* data the caller passed: the body is left out or is the serialised None.
C8_HeadAndGetSendNoBody ==
    (pc # "idle" /\ args.verb \in {"head", "get"}) =>
        call.data \in {Omitted, json_dumps(None)}

\* C9: on either backend and for every verb the transport is called with
\* BasicAuth(username, password) built from a raw mapping, each defaulting to
\* the empty string, and with a pre-built credential unchanged.
C9_CredentialNormalised ==
    pc # "idle" =>
        call.auth =
            (IF args.auth.t = "dict"
             THEN BasicAuth(DictGet(args.auth, "username", StrV("")),
                            DictGet(args.auth, "password", StrV("")))
             ELSE args.auth)

====
